---- MODULE Spec2Model ----
(***************************************************************************)
(* veneur: the sharded aggregation engine (worker.go) and its flush        *)
(* pipeline (Server.Flush / Server.flushPart).                             *)
(*                                                                         *)
(* Spec        one Work loop per worker, ingesting observations, against   *)
(*             direct callers of Worker.Flush and Worker.Stop.             *)
(* SpecFair    Spec under fair scheduling of the goroutines.               *)
(* SpecServer  one Server.Flush cycle over workers whose mappings were     *)
(*             filled by earlier ingestion: Worker.Flush on every worker,  *)
(*             the partition into chunks and the concurrent flushParts.    *)
(* SpecChunks  Server.Flush up to the end of its chunk loop, for every     *)
(*             totalCount and metricLimit within a bound.                  *)
(***************************************************************************)
EXTENDS Integers, Sequences, FiniteSets, TLC

(* ----------------------------- bounds ---------------------------------- *)
\* number of workers of the server (len(s.Workers))
NumWorkers == 2
\* Spec: observations sent to the workers in one run
MaxObs == 2
\* SpecServer: largest number of aggregators a worker holds at the start
MaxFill == 3
\* SpecServer: largest metricLimit drawn
MaxLimit == 4
\* SpecServer: largest number of chunks (concurrent flushParts) of a drawn cycle
MaxParts == 2
\* SpecChunks: largest totalCount drawn
MaxTotal == 12

(* ------------------------ program constants ---------------------------- *)
\* http.StatusAccepted
StatusAccepted == 202
\* the status codes the backend answers with
StatusCodes == {StatusAccepted, 500}
\* a large cycle: 250 records under a metricLimit of 100
LargeCycle == [total |-> 250, limit |-> 100]

WorkerIds == 1..NumWorkers
\* Spec: the workers that the router sends observations to and that the
\* direct callers flush and stop
SpecWorkers == {1}
\* the digests of the observations sent
Digests == {1, 2}
\* the five kinds ProcessMetric's switch knows
Kinds == {"counter", "gauge", "histogram", "set", "timer"}
\* the values of Metric.Type the router sends in Spec: a kind of one record,
\* a kind of several records and a type the switch does not know
MetricTypes == {"counter", "timer", "bogus"}
\* the threads that call Worker.Flush: Server.Flush and direct callers
DirectCallers == {"t1", "t2"}
Callers == {"server"} \cup DirectCallers
\* configuration: Worker.histogramPercentiles
histogramPercentiles == <<"50percentile">>
\* configuration: Server.Hostname
Hostname == "host"

VARIABLES
    \* Worker fields, per worker
    metrics,      \* w.metrics
    maps,         \* w.counters, w.gauges, w.histograms, w.sets, w.timers
    mutex,        \* w.mutex: "free", "work" (the Work loop) or the caller holding it
    quit,         \* w.QuitChan is closed
    \* Worker.Work / ProcessMetric, per worker
    wpc,          \* position of the Work goroutine
    cur,          \* the Metric m being processed
    \* Worker.Flush, per caller
    fpc,          \* position of the caller inside Worker.Flush
    fw,           \* the worker being flushed
    taken,        \* the locals counters, gauges, histograms, sets, timers
    wPostMetrics, \* the local postMetrics of Worker.Flush
    postCap,      \* the capacity postMetrics was made with
    fno,          \* index of this call's swap in flushLog
    \* history
    obs,          \* every observation received, with the swap count at its completion
    flushLog,     \* every swap performed, with what it took and what its Flush returned
    nextInst,     \* number of aggregator instances created so far
    \* Server.Flush
    spc,          \* position of Server.Flush
    si,           \* index of the worker loop (lines 21-26)
    postMetrics,  \* [][]DDMetric
    totalCount,
    finalMetrics,
    metricLimit,
    workers,      \* number of chunks
    chunkSize,
    ci,           \* index i of the chunk loop (lines 52-60)
    wg,           \* sync.WaitGroup counter
    parts,        \* the flushPart goroutines, by chunk index
    stats         \* statsd calls of the flush pipeline

workerVars == <<metrics, maps, mutex, quit, wpc, cur>>
flushVars == <<fpc, fw, taken, wPostMetrics, postCap, fno>>
histVars == <<obs, flushLog, nextInst>>
serverVars == <<spc, si, postMetrics, totalCount, finalMetrics, metricLimit,
                workers, chunkSize, ci, wg, parts, stats>>
vars == <<workerVars, flushVars, histVars, serverVars>>

(* ----------------------------- helpers --------------------------------- *)
\* faulty variant: one map holds the aggregators of every kind
FieldOfOneMap(kind) == "counters"

\* the field of Worker that holds the aggregators of a kind
FieldOf(kind) ==
    CASE kind = "counter" -> "counters"
      [] kind = "gauge" -> "gauges"
      [] kind = "histogram" -> "histograms"
      [] kind = "set" -> "sets"
      [] kind = "timer" -> "timers"

Fields == {"counters", "gauges", "histograms", "sets", "timers"}

KindOf(field) == CHOOSE k \in Kinds : FieldOf(k) = field

\* make(map[uint32]*T)
EmptyMap == [d \in {} |-> 0]

\* the five fresh mappings of NewWorker and of Worker.Flush
EmptyMaps == [f \in Fields |-> EmptyMap]

\* m[d] = v on a Go map
MapPut(m, d, v) == [x \in (DOMAIN m) \cup {d} |-> IF x = d THEN v ELSE m[x]]

\* NewCounter, NewGauge, NewHist, NewSet: a fresh instance without samples
NewAggregator(inst, kind, digest) ==
    [inst |-> inst, kind |-> kind, digest |-> digest, samples |-> <<>>]

\* Counter.Sample, Gauge.Sample, Histo.Sample, Set.Sample: the instance
\* absorbs the observation
Sample(agg, id) == [agg EXCEPT !.samples = Append(@, id)]

\* the record names one aggregator of a kind emits at its Flush
FlushFields(kind) ==
    IF kind \in {"histogram", "timer"}
    THEN <<"count", "max", "min">> \o histogramPercentiles
    ELSE <<"value">>

\* Counter.Flush, Gauge.Flush, Histo.Flush, Set.Flush: the DDMetrics of one
\* instance; Hostname is left empty for Server.Flush to fill
AggFlush(agg) ==
    [j \in 1..Len(FlushFields(agg.kind)) |->
        [kind |-> agg.kind, digest |-> agg.digest, inst |-> agg.inst,
         field |-> FlushFields(agg.kind)[j], samples |-> agg.samples,
         Hostname |-> ""]]

RECURSIVE Concat(_)
\* append(a, b...) over a sequence of sequences, by halves
Concat(ss) ==
    CHOOSE all \in
       {IF Len(v) = 0 THEN <<>>
        ELSE IF Len(v) = 1 THEN v[1]
        ELSE Concat(SubSeq(v, 1, Len(v) \div 2))
             \o Concat(SubSeq(v, (Len(v) \div 2) + 1, Len(v))) : v \in {ss}} : TRUE

\* every digest of the model lies in 1..DigestBound
DigestBound == LargeCycle.total + MaxFill

RECURSIVE SeqOfRange(_, _, _, _)
\* the elements of S within lo..hi as a sequence, ascending or descending
SeqOfRange(S, lo, hi, asc) ==
    IF \A x \in S : x < lo \/ x > hi THEN <<>>
    ELSE IF lo = hi THEN <<lo>>
    ELSE CHOOSE sq \in
            {IF asc THEN SeqOfRange(S, lo, mid, asc) \o SeqOfRange(S, mid + 1, hi, asc)
                    ELSE SeqOfRange(S, mid + 1, hi, asc) \o SeqOfRange(S, lo, mid, asc) :
                mid \in {(lo + hi) \div 2}} : TRUE

\* the keys of a map as a sequence, ascending or descending
SeqOfSet(S, asc) == IF S = {} THEN <<>> ELSE SeqOfRange(S, 1, DigestBound, asc)

\* number of swaps performed so far on worker w
SwapCount(w) == Cardinality({k \in DOMAIN flushLog : flushLog[k].worker = w})

(* ------------------- Worker.Work and ProcessMetric --------------------- *)
\* case m := <-w.WorkChan: the loop receives the next observation, of any
\* type and digest, and enters ProcessMetric
WorkRecv(w) ==
    /\ wpc[w] = "select"
    /\ Len(obs) < MaxObs
    /\ \E t \in MetricTypes, d \in Digests :
          obs' = Append(obs, [type |-> t, digest |-> d, worker |-> w, epoch |-> -1])
    /\ cur' = [cur EXCEPT ![w] = Len(obs) + 1]
    /\ wpc' = [wpc EXCEPT ![w] = "lock"]
    /\ UNCHANGED <<metrics, maps, mutex, quit, flushVars, flushLog, nextInst, serverVars>>

\* faulty variant: the loop returns as soon as QuitChan is closed, wherever it is
WorkQuitAnywhere(w) ==
    /\ wpc[w] # "stopped"
    /\ quit[w]
    /\ wpc' = [wpc EXCEPT ![w] = "stopped"]
    /\ UNCHANGED <<metrics, maps, mutex, quit, cur, flushVars, histVars, serverVars>>

\* case <-w.QuitChan: the loop returns
WorkQuit(w) ==
    /\ wpc[w] = "select"
    /\ quit[w]
    /\ wpc' = [wpc EXCEPT ![w] = "stopped"]
    /\ UNCHANGED <<metrics, maps, mutex, quit, cur, flushVars, histVars, serverVars>>

\* Worker.Stop: close(w.QuitChan)
Stop(w) ==
    /\ ~quit[w]
    /\ quit' = [quit EXCEPT ![w] = TRUE]
    /\ UNCHANGED <<metrics, maps, mutex, wpc, cur, flushVars, histVars, serverVars>>

\* faulty variant: ProcessMetric does not take the mutex
PMLockNoMutex(w) ==
    /\ wpc[w] = "lock"
    /\ metrics' = [metrics EXCEPT ![w] = @ + 1]
    /\ wpc' = [wpc EXCEPT ![w] = "switch"]
    /\ UNCHANGED <<maps, mutex, quit, cur, flushVars, histVars, serverVars>>

\* faulty variant: ProcessMetric does not count the observation
PMLockNoCount(w) ==
    /\ wpc[w] = "lock"
    /\ mutex[w] = "free"
    /\ mutex' = [mutex EXCEPT ![w] = "work"]
    /\ wpc' = [wpc EXCEPT ![w] = "switch"]
    /\ UNCHANGED <<metrics, maps, quit, cur, flushVars, histVars, serverVars>>

\* w.mutex.Lock(); defer w.mutex.Unlock(); w.metrics++
PMLock(w) ==
    /\ wpc[w] = "lock"
    /\ mutex[w] = "free"
    /\ mutex' = [mutex EXCEPT ![w] = "work"]
    /\ metrics' = [metrics EXCEPT ![w] = @ + 1]
    /\ wpc' = [wpc EXCEPT ![w] = "switch"]
    /\ UNCHANGED <<maps, quit, cur, flushVars, histVars, serverVars>>

\* faulty variant: a new aggregator is stored whether one is present or not
LookupAlwaysNew(ms, kind, digest, inst) ==
    [ms EXCEPT ![FieldOf(kind)] = MapPut(@, digest, NewAggregator(inst, kind, digest))]

\* the mappings after the lookup of a case of the switch: a new aggregator
\* is stored under the digest when none is present
Lookup(ms, kind, digest, inst) ==
    IF digest \in DOMAIN ms[FieldOf(kind)]
    THEN ms
    ELSE [ms EXCEPT ![FieldOf(kind)] = MapPut(@, digest, NewAggregator(inst, kind, digest))]

\* faulty variant: the default case falls into the case of the counters
PMSwitchDefaultCounter(w) ==
    LET m == obs[cur[w]]
        kind == IF m.type \in Kinds THEN m.type ELSE "counter"
    IN
    /\ wpc[w] = "switch"
    /\ maps' = [maps EXCEPT ![w] = Lookup(@, kind, m.digest, nextInst + 1)]
    /\ nextInst' = IF m.digest \in DOMAIN maps[w][FieldOf(kind)]
                   THEN nextInst ELSE nextInst + 1
    /\ wpc' = [wpc EXCEPT ![w] = IF m.type \in Kinds THEN "sample" ELSE "unlock"]
    /\ UNCHANGED <<metrics, mutex, quit, cur, flushVars, obs, flushLog, serverVars>>

\* switch m.Type: the lookup of the five cases, or the default case
PMSwitch(w) ==
    LET m == obs[cur[w]] IN
    /\ wpc[w] = "switch"
    /\ IF m.type \in Kinds
       THEN /\ maps' = [maps EXCEPT ![w] = Lookup(@, m.type, m.digest, nextInst + 1)]
            /\ nextInst' = IF m.digest \in DOMAIN maps[w][FieldOf(m.type)]
                           THEN nextInst ELSE nextInst + 1
            /\ wpc' = [wpc EXCEPT ![w] = "sample"]
       ELSE /\ wpc' = [wpc EXCEPT ![w] = "unlock"]
            /\ UNCHANGED <<maps, nextInst>>
    /\ UNCHANGED <<metrics, mutex, quit, cur, flushVars, obs, flushLog, serverVars>>

\* faulty variant: the case looks the aggregator up and does not sample it
PMSampleSkipped(w) ==
    /\ wpc[w] = "sample"
    /\ wpc' = [wpc EXCEPT ![w] = "unlock"]
    /\ UNCHANGED <<metrics, maps, mutex, quit, cur, flushVars, histVars, serverVars>>

\* w.counters[m.Digest].Sample(...) and its four siblings
PMSample(w) ==
    LET m == obs[cur[w]] IN
    /\ wpc[w] = "sample"
    /\ maps' = [maps EXCEPT ![w][FieldOf(m.type)][m.digest] = Sample(@, cur[w])]
    /\ wpc' = [wpc EXCEPT ![w] = "unlock"]
    /\ UNCHANGED <<metrics, mutex, quit, cur, flushVars, histVars, serverVars>>

\* faulty variant: the Unlock is not deferred and the default case returns
\* without it
PMUnlockLeak(w) ==
    /\ wpc[w] = "unlock"
    /\ mutex' = [mutex EXCEPT ![w] = IF obs[cur[w]].type \in Kinds THEN "free" ELSE @]
    /\ obs' = [obs EXCEPT ![cur[w]].epoch = SwapCount(w)]
    /\ cur' = [cur EXCEPT ![w] = 0]
    /\ wpc' = [wpc EXCEPT ![w] = "select"]
    /\ UNCHANGED <<metrics, maps, quit, flushVars, flushLog, nextInst, serverVars>>

\* the deferred w.mutex.Unlock() and the return to the select
PMUnlock(w) ==
    /\ wpc[w] = "unlock"
    /\ mutex' = [mutex EXCEPT ![w] = "free"]
    /\ obs' = [obs EXCEPT ![cur[w]].epoch = SwapCount(w)]
    /\ cur' = [cur EXCEPT ![w] = 0]
    /\ wpc' = [wpc EXCEPT ![w] = "select"]
    /\ UNCHANGED <<metrics, maps, quit, flushVars, flushLog, nextInst, serverVars>>

(* ---------------------------- Worker.Flush ----------------------------- *)
\* len(w.counters)+len(w.gauges)+len(w.histograms)*(3+len(w.histogramPercentiles))
PreallocSize(ms) ==
    Cardinality(DOMAIN ms.counters) + Cardinality(DOMAIN ms.gauges)
    + Cardinality(DOMAIN ms.histograms) * (3 + Len(histogramPercentiles))

\* a caller enters w.Flush(interval): postMetrics := make([]DDMetric, 0,
\* len(w.counters)+...); the sizes of the worker's maps are read here,
\* before the mutex is taken, whoever holds it
FlushCall(c, w) ==
    /\ fpc[c] = "idle"
    /\ fw' = [fw EXCEPT ![c] = w]
    /\ wPostMetrics' = [wPostMetrics EXCEPT ![c] = <<>>]
    /\ postCap' = [postCap EXCEPT ![c] = PreallocSize(maps[w])]
    /\ fpc' = [fpc EXCEPT ![c] = "lock"]
    /\ UNCHANGED <<taken, fno>>

\* a direct caller (a test, another goroutine) calls w.Flush, once in a run
DirectFlush(c, w) ==
    /\ c \in DirectCallers
    /\ \A k \in DOMAIN flushLog : flushLog[k].caller # c
    /\ FlushCall(c, w)
    /\ UNCHANGED <<workerVars, histVars, serverVars>>

\* faulty variant: the swap leaves the worker its mappings
SwappedMapsKept(ms) == ms

\* faulty variant: the swap leaves the worker its timers
SwappedMapsTimersKept(ms) == [EmptyMaps EXCEPT !.timers = ms.timers]

\* the mappings the worker holds after the swap
SwappedMaps(ms) == EmptyMaps

\* w.mutex.Lock(), the copies of the five mappings, the report of
\* w.metrics, the five fresh mappings and w.metrics = 0
FlushSwap(c) ==
    LET w == fw[c] IN
    /\ fpc[c] = "lock"
    /\ mutex[w] = "free"
    /\ mutex' = [mutex EXCEPT ![w] = c]
    /\ taken' = [taken EXCEPT ![c] = maps[w]]
    /\ maps' = [maps EXCEPT ![w] = SwappedMaps(@)]
    /\ metrics' = [metrics EXCEPT ![w] = 0]
    /\ flushLog' = Append(flushLog,
                      [worker |-> w, caller |-> c, processed |-> metrics[w],
                       taken |-> maps[w], flushed |-> <<>>, out |-> <<>>,
                       returned |-> FALSE])
    /\ fno' = [fno EXCEPT ![c] = Len(flushLog) + 1]
    /\ fpc' = [fpc EXCEPT ![c] = "unlock"]
    /\ UNCHANGED <<quit, wpc, cur, fw, wPostMetrics, postCap, obs, nextInst, serverVars>>

\* faulty variant: the mutex is kept while the aggregators are flushed
FlushUnlockKeepsMutex(c) ==
    /\ fpc[c] = "unlock"
    /\ fpc' = [fpc EXCEPT ![c] = "flushing"]
    /\ UNCHANGED <<workerVars, fw, taken, wPostMetrics, postCap, fno, histVars, serverVars>>

\* w.mutex.Unlock()
FlushUnlock(c) ==
    /\ fpc[c] = "unlock"
    /\ mutex' = [mutex EXCEPT ![fw[c]] = "free"]
    /\ fpc' = [fpc EXCEPT ![c] = "flushing"]
    /\ UNCHANGED <<metrics, maps, quit, wpc, cur, fw, taken, wPostMetrics, postCap, fno,
                   histVars, serverVars>>

\* the fields in the order of the five range loops
FieldOrder == <<"counters", "gauges", "histograms", "sets", "timers">>

\* the aggregators of a map in the order of its keys given
InOrder(m, order) == [j \in 1..Len(order) |-> m[order[j]]]

\* for _, v := range m: the aggregators of a map in an iteration order
\* (ascending or descending digests)
RangeOver(m, asc) ==
    CHOOSE r \in {InOrder(m, order) : order \in {SeqOfSet(DOMAIN m, asc)}} : TRUE

\* faulty variant: the range loop over the timers is missing
FlushOrderNoTimers(tk, asc) ==
    Concat([k \in 1..4 |-> RangeOver(tk[FieldOrder[k]], asc[k])])

\* the aggregators of the taken mappings in the order their Flush is
\* called: the five range loops, each in an iteration order of its map
FlushOrder(tk, asc) ==
    Concat([k \in 1..5 |-> RangeOver(tk[FieldOrder[k]], asc[k])])

\* the iteration orders that differ: one choice for every map, a single
\* one for a map of fewer than two entries
RangeOrders(tk) ==
    {asc \in [1..5 -> BOOLEAN] :
        \A k \in 1..5 : Cardinality(DOMAIN tk[FieldOrder[k]]) < 2 => asc[k]}

\* postMetrics after v.Flush on the aggregators, in their order
Flushed(post, aggs) == post \o Concat([j \in 1..Len(aggs) |-> AggFlush(aggs[j])])

\* the five range loops, v.Flush on every aggregator taken appended to
\* postMetrics, and return postMetrics: the locals of the call are dropped
FlushAggregators(c) ==
    /\ fpc[c] = "flushing"
    /\ \E asc \in RangeOrders(taken[c]) :
         \E aggs \in {FlushOrder(taken[c], asc)} :
           \E result \in {Flushed(wPostMetrics[c], aggs)} :
             flushLog' = [flushLog EXCEPT
                ![fno[c]].flushed = @ \o aggs,
                ![fno[c]].out = result,
                ![fno[c]].returned = TRUE]
    /\ fpc' = [fpc EXCEPT ![c] = "idle"]
    /\ taken' = [taken EXCEPT ![c] = EmptyMaps]
    /\ wPostMetrics' = [wPostMetrics EXCEPT ![c] = <<>>]
    /\ postCap' = [postCap EXCEPT ![c] = 0]
    /\ fno' = [fno EXCEPT ![c] = 0]
    /\ fw' = [fw EXCEPT ![c] = 0]
    /\ UNCHANGED <<obs, nextInst>>

\* a direct caller runs the rest of w.Flush and gets its result
DirectReturn(c) ==
    /\ c \in DirectCallers
    /\ FlushAggregators(c)
    /\ UNCHANGED <<workerVars, serverVars>>

(* ---------------------------- Server.Flush ----------------------------- *)
\* tmp := w.Flush(interval) on the next worker of s.Workers
ServerCallFlush ==
    /\ spc = "loop"
    /\ si <= NumWorkers
    /\ FlushCall("server", si)
    /\ spc' = "inflush"
    /\ UNCHANGED <<workerVars, histVars, si, postMetrics, totalCount, finalMetrics,
                   metricLimit, workers, chunkSize, ci, wg, parts, stats>>

\* w.Flush returns: totalCount += len(tmp); postMetrics = append(postMetrics, tmp)
ServerCollect ==
    /\ spc = "inflush"
    /\ FlushAggregators("server")
    /\ LET tmp == flushLog'[fno["server"]].out
       IN /\ totalCount' = totalCount + Len(tmp)
          /\ postMetrics' = Append(postMetrics, tmp)
    /\ si' = si + 1
    /\ spc' = "loop"
    /\ UNCHANGED <<workerVars, finalMetrics, metricLimit, workers, chunkSize, ci, wg,
                   parts, stats>>

\* a / b on Go ints, b > 0: the quotient truncated toward zero
GoDiv(a, b) == IF a >= 0 THEN a \div b ELSE -((-a) \div b)

\* faulty variant: the number of chunks is rounded down
WorkersFloor(total, limit) == GoDiv(total, limit)

\* workers := ((totalCount - 1) / metricLimit) + 1
WorkersFor(total, limit) == GoDiv(total - 1, limit) + 1

\* faulty variant: the chunk size is rounded down
ChunkSizeFloor(total, n) == GoDiv(total, n)

\* chunkSize := ((totalCount - 1) / workers) + 1
ChunkSizeFor(total, n) == GoDiv(total - 1, n) + 1

\* finalMetrics: the slices of postMetrics appended in order, every record
\* with Hostname set
Combine(pm) ==
    CHOOSE fm \in {[j \in 1..Len(all) |-> [all[j] EXCEPT !.Hostname = Hostname]] :
                     all \in {Concat(pm)}} : TRUE

\* workers and chunkSize; the division by a workers of 0 panics
Partition ==
    /\ workers' = WorkersFor(totalCount, metricLimit)
    /\ IF workers' = 0
       THEN spc' = "panic" /\ UNCHANGED chunkSize
       ELSE spc' = "chunks" /\ chunkSize' = ChunkSizeFor(totalCount, workers')

\* faulty variant: the test of totalCount == 0 is missing
ServerCombineNoSkip ==
    /\ spc = "loop"
    /\ si > NumWorkers
    /\ finalMetrics' = Combine(postMetrics)
    /\ stats' = [stats EXCEPT !.post_metrics_total = Append(@, totalCount)]
    /\ Partition
    /\ UNCHANGED <<workerVars, flushVars, histVars, si, postMetrics, totalCount,
                   metricLimit, ci, wg, parts>>

\* the end of the worker loop: finalMetrics, the gauge of totalCount, the
\* return when there is nothing to flush, else workers and chunkSize
ServerCombine ==
    /\ spc = "loop"
    /\ si > NumWorkers
    /\ finalMetrics' = Combine(postMetrics)
    /\ stats' = [stats EXCEPT !.post_metrics_total = Append(@, totalCount)]
    /\ IF totalCount = 0
       THEN /\ spc' = "skipped"
            /\ UNCHANGED <<workers, chunkSize>>
       ELSE Partition
    /\ UNCHANGED <<workerVars, flushVars, histVars, si, postMetrics, totalCount,
                   metricLimit, ci, wg, parts>>

\* s[from:] of a Go slice whose capacity is its length: the elements after
\* the first `from`, or a panic when from is out of range
SliceFrom(sl, from) ==
    IF from > Len(sl) THEN [ok |-> FALSE, slice |-> <<>>]
    ELSE [ok |-> TRUE, slice |-> SubSeq(sl, from + 1, Len(sl))]

\* s[:to]: the first `to` elements, or a panic when to is out of range
SliceTo(sl, to) ==
    IF to > Len(sl) THEN [ok |-> FALSE, slice |-> <<>>]
    ELSE [ok |-> TRUE, slice |-> SubSeq(sl, 1, to)]

\* faulty variant: no chunk is trimmed
ChunkUntrimmed(fm, i, n, size) == SliceFrom(fm, i * size)

\* the chunk of iteration i: finalMetrics[i*chunkSize:], trimmed to
\* chunkSize unless it is the last one
Chunk(fm, i, n, size) ==
    LET rest == SliceFrom(fm, i * size)
    IN IF rest.ok /\ i < n - 1 THEN SliceTo(rest.slice, size) ELSE rest

\* a flushPart goroutine that has just been started on a chunk
NewPart(chunk) ==
    [pc |-> "encode", metricSlice |-> chunk, posted |-> FALSE, status |-> 0,
     readErr |-> FALSE, errors |-> <<>>, dones |-> 0]

\* one iteration of the chunk loop: the chunk, wg.Add(1), go s.flushPart
ServerChunk ==
    /\ spc = "chunks"
    /\ ci < workers
    /\ LET chunk == Chunk(finalMetrics, ci, workers, chunkSize)
       IN IF chunk.ok
          THEN /\ wg' = wg + 1
               /\ parts' = Append(parts, NewPart(chunk.slice))
               /\ ci' = ci + 1
               /\ spc' = spc
          ELSE /\ spc' = "panic"
               /\ UNCHANGED <<wg, parts, ci>>
    /\ UNCHANGED <<workerVars, flushVars, histVars, si, postMetrics, totalCount,
                   finalMetrics, metricLimit, workers, chunkSize, stats>>

\* faulty variant: Server.Flush does not wait for the flushParts
WaitDoneNoWait(n) == TRUE

\* wg.Wait() returns when the counter is zero
WaitDone(n) == n = 0

\* wg.Wait(), the duration and the zero count of flush.error_total
ServerWait ==
    /\ spc = "chunks"
    /\ ci = workers
    /\ WaitDone(wg)
    /\ stats' = [stats EXCEPT !.error_total = Append(@, 0)]
    /\ spc' = "done"
    /\ UNCHANGED <<workerVars, flushVars, histVars, si, postMetrics, totalCount,
                   finalMetrics, metricLimit, workers, chunkSize, ci, wg, parts>>

(* --------------------------- Server.flushPart -------------------------- *)
\* faulty variant: a failure counts one error, not one per record
PartFailCountsOne(part, cause) ==
    [part EXCEPT !.pc = "done",
                 !.errors = Append(@, [value |-> 1, cause |-> cause]),
                 !.dones = @ + 1]

\* a failure return of flushPart: s.statsd.Count("flush.error_total",
\* len(metricSlice), cause), and the deferred wg.Done()
PartFail(part, cause) ==
    [part EXCEPT !.pc = "done",
                 !.errors = Append(@, [value |-> Len(part.metricSlice), cause |-> cause]),
                 !.dones = @ + 1]

\* the successful end of flushPart: the deferred wg.Done()
PartSucceed(part) == [part EXCEPT !.pc = "done", !.dones = @ + 1]

\* encoder.Encode of the chunk: it fails, or the body is rendered
PartEncode(i) ==
    /\ i \in DOMAIN parts
    /\ parts[i].pc = "encode"
    /\ \/ /\ parts' = [parts EXCEPT ![i] = PartFail(@, "json")]
          /\ wg' = wg - 1
       \/ /\ parts' = [parts EXCEPT ![i].pc = "construct"]
          /\ wg' = wg
    /\ UNCHANGED <<workerVars, flushVars, histVars, spc, si, postMetrics, totalCount,
                   finalMetrics, metricLimit, workers, chunkSize, ci, stats>>

\* http.NewRequest: it fails, or the request is built
PartConstruct(i) ==
    /\ i \in DOMAIN parts
    /\ parts[i].pc = "construct"
    /\ \/ /\ parts' = [parts EXCEPT ![i] = PartFail(@, "construct")]
          /\ wg' = wg - 1
       \/ /\ parts' = [parts EXCEPT ![i].pc = "do"]
          /\ wg' = wg
    /\ UNCHANGED <<workerVars, flushVars, histVars, spc, si, postMetrics, totalCount,
                   finalMetrics, metricLimit, workers, chunkSize, ci, stats>>

\* http.DefaultClient.Do(req): a transport error, or a response with a status
PartDo(i) ==
    /\ i \in DOMAIN parts
    /\ parts[i].pc = "do"
    /\ \/ /\ parts' = [parts EXCEPT ![i] = [PartFail(@, "io") EXCEPT !.posted = TRUE]]
          /\ wg' = wg - 1
       \/ /\ \E code \in StatusCodes :
               parts' = [parts EXCEPT ![i].pc = "read", ![i].posted = TRUE,
                                      ![i].status = code]
          /\ wg' = wg
    /\ UNCHANGED <<workerVars, flushVars, histVars, spc, si, postMetrics, totalCount,
                   finalMetrics, metricLimit, workers, chunkSize, ci, stats>>

\* ioutil.ReadAll(resp.Body): an error is logged and flushPart goes on
PartRead(i) ==
    /\ i \in DOMAIN parts
    /\ parts[i].pc = "read"
    /\ \E err \in BOOLEAN :
         parts' = [parts EXCEPT ![i].pc = "check", ![i].readErr = err]
    /\ UNCHANGED <<workerVars, flushVars, histVars, spc, si, postMetrics, totalCount,
                   finalMetrics, metricLimit, workers, chunkSize, ci, wg, stats>>

\* faulty variant: a body that could not be read is a failure too
ClassifyReadErr(part) ==
    IF part.status # StatusAccepted \/ part.readErr
    THEN PartFail(part, ToString(part.status))
    ELSE PartSucceed(part)

\* the part after the test of resp.StatusCode against http.StatusAccepted
Classify(part) ==
    IF part.status # StatusAccepted
    THEN PartFail(part, ToString(part.status))
    ELSE PartSucceed(part)

\* if resp.StatusCode != http.StatusAccepted { count, log, return }, else
\* the debug log; the deferred resp.Body.Close() and wg.Done()
PartCheck(i) ==
    /\ i \in DOMAIN parts
    /\ parts[i].pc = "check"
    /\ parts' = [parts EXCEPT ![i] = Classify(@)]
    /\ wg' = wg - 1
    /\ UNCHANGED <<workerVars, flushVars, histVars, spc, si, postMetrics, totalCount,
                   finalMetrics, metricLimit, workers, chunkSize, ci, stats>>

(* ------------------------- specification Spec -------------------------- *)
\* the state after NewWorker on every worker, nothing called yet
InitWorkers ==
    /\ metrics = [w \in WorkerIds |-> 0]
    /\ maps = [w \in WorkerIds |-> EmptyMaps]
    /\ mutex = [w \in WorkerIds |-> "free"]
    /\ quit = [w \in WorkerIds |-> FALSE]
    /\ wpc = [w \in WorkerIds |-> "select"]
    /\ cur = [w \in WorkerIds |-> 0]

InitCallers ==
    /\ fpc = [c \in Callers |-> "idle"]
    /\ fw = [c \in Callers |-> 0]
    /\ taken = [c \in Callers |-> EmptyMaps]
    /\ wPostMetrics = [c \in Callers |-> <<>>]
    /\ postCap = [c \in Callers |-> 0]
    /\ fno = [c \in Callers |-> 0]

\* Server.Flush is not running
InitServerOff ==
    /\ spc = "off"
    /\ si = 0
    /\ postMetrics = <<>>
    /\ totalCount = 0
    /\ finalMetrics = <<>>
    /\ metricLimit = 0
    /\ workers = 0
    /\ chunkSize = 0
    /\ ci = 0
    /\ wg = 0
    /\ parts = <<>>
    /\ stats = [post_metrics_total |-> <<>>, error_total |-> <<>>]

Init ==
    /\ InitWorkers
    /\ InitCallers
    /\ InitServerOff
    /\ obs = <<>>
    /\ flushLog = <<>>
    /\ nextInst = 0

Next ==
    \/ \E w \in SpecWorkers : WorkRecv(w)
    \/ \E w \in SpecWorkers : WorkQuit(w)
    \/ \E w \in SpecWorkers : Stop(w)
    \/ \E w \in SpecWorkers : PMLock(w)
    \/ \E w \in SpecWorkers : PMSwitch(w)
    \/ \E w \in SpecWorkers : PMSample(w)
    \/ \E w \in SpecWorkers : PMUnlock(w)
    \/ \E c \in DirectCallers, w \in SpecWorkers : DirectFlush(c, w)
    \/ \E c \in DirectCallers : FlushSwap(c)
    \/ \E c \in DirectCallers : FlushUnlock(c)
    \/ \E c \in DirectCallers : DirectReturn(c)

Spec == Init /\ [][Next]_vars

\* a step of the Work goroutine of w inside ProcessMetric
ProcessStep(w) == PMLock(w) \/ PMSwitch(w) \/ PMSample(w) \/ PMUnlock(w)

\* a step of a direct caller inside Worker.Flush
FlushStep(c) == FlushSwap(c) \/ FlushUnlock(c) \/ DirectReturn(c)

\* scheduling: a goroutine that can run does run, and one blocked in Lock
\* gets a mutex that stays free; the select of the Work loop picks among
\* its ready cases at random, so that a closed QuitChan is picked in the
\* end however often WorkChan is ready too
Fairness ==
    /\ \A w \in SpecWorkers : SF_vars(WorkQuit(w)) /\ WF_vars(ProcessStep(w))
    /\ \A c \in DirectCallers : WF_vars(FlushStep(c))

\* the observations sent so far all carry the first digest
OneDigest == \A id \in DOMAIN obs : obs[id].digest = 1

\* the steps of Spec when the router sends observations of one digest
NextFair == Next /\ OneDigest'

\* Spec under fair scheduling of the goroutines, for a router that sends
\* observations of every type in MetricTypes and of one digest
SpecFair == Init /\ [][NextFair]_vars /\ Fairness

(* ---------------------- specification SpecServer ----------------------- *)
\* the kind of the j-th observation a worker received before the cycle
FillKind(w, j) == FieldOrder[((j + w - 2) % 5) + 1]

RECURSIVE FillObs(_, _)
\* the observations received before the cycle when worker w got fill[w] of
\* them, of distinct digests, for the workers from w on
FillObs(fill, w) ==
    IF w > NumWorkers THEN <<>>
    ELSE [j \in 1..fill[w] |->
             [type |-> KindOf(FillKind(w, j)), digest |-> j, worker |-> w, epoch |-> 0]]
         \o FillObs(fill, w + 1)

\* the observations of the large cycle: counters of distinct digests, all
\* on the first worker
LargeObs ==
    [j \in 1..LargeCycle.total |->
        [type |-> "counter", digest |-> j, worker |-> 1, epoch |-> 0]]

\* the mappings of worker w after ProcessMetric on its observations among
\* os, each of which created its aggregator and gave it its first sample
Ingested(w, os) ==
    [f \in Fields |->
        LET ks == {k \in DOMAIN os : os[k].worker = w /\ FieldOf(os[k].type) = f}
        IN [d \in {os[k].digest : k \in ks} |->
               LET k == CHOOSE x \in ks : os[x].digest = d
               IN Sample(Lookup(EmptyMaps, os[k].type, d, k)[f][d], k)]]

\* number of records the observations os flush to
RecordsOf(os) == Len(Concat([k \in 1..Len(os) |-> FlushFields(os[k].type)]))

\* Server.Flush is entered with the limit, after the workers processed os
InitCycle(os, limit) ==
    /\ obs = os
    /\ nextInst = Len(os)
    /\ flushLog = <<>>
    /\ metrics = [w \in WorkerIds |-> Cardinality({k \in DOMAIN os : os[k].worker = w})]
    /\ maps = [w \in WorkerIds |-> Ingested(w, os)]
    /\ mutex = [w \in WorkerIds |-> "free"]
    /\ quit = [w \in WorkerIds |-> FALSE]
    /\ wpc = [w \in WorkerIds |-> "select"]
    /\ cur = [w \in WorkerIds |-> 0]
    /\ InitCallers
    /\ spc = "loop"
    /\ si = 1
    /\ postMetrics = [k \in 1..NumWorkers |-> <<>>]
    /\ totalCount = 0
    /\ finalMetrics = <<>>
    /\ metricLimit = limit
    /\ workers = 0
    /\ chunkSize = 0
    /\ ci = 0
    /\ wg = 0
    /\ parts = <<>>
    /\ stats = [post_metrics_total |-> <<>>, error_total |-> <<>>]

InitServer ==
    \/ \E fill \in [WorkerIds -> 0..MaxFill], limit \in 1..MaxLimit :
         LET os == FillObs(fill, 1)
         IN /\ os # <<>> => WorkersFor(RecordsOf(os), limit) <= MaxParts
            /\ InitCycle(os, limit)
    \/ InitCycle(LargeObs, LargeCycle.limit)

NextServer ==
    \/ ServerCallFlush
    \/ FlushSwap("server")
    \/ FlushUnlock("server")
    \/ ServerCollect
    \/ ServerCombine
    \/ ServerChunk
    \/ ServerWait
    \/ \E i \in 1..Len(parts) : PartEncode(i)
    \/ \E i \in 1..Len(parts) : PartConstruct(i)
    \/ \E i \in 1..Len(parts) : PartDo(i)
    \/ \E i \in 1..Len(parts) : PartRead(i)
    \/ \E i \in 1..Len(parts) : PartCheck(i)

SpecServer == InitServer /\ [][NextServer]_vars

(* ---------------------- specification SpecChunks ----------------------- *)
\* n observations of counters of distinct digests, all on the first worker
CounterObs(n) ==
    [j \in 1..n |-> [type |-> "counter", digest |-> j, worker |-> 1, epoch |-> 0]]

\* Server.Flush is entered with any limit from 1 on, below, at and above
\* the number of records, after the first worker processed any number of
\* counters from 1 on
InitChunks ==
    \E total \in 1..MaxTotal, limit \in 1..(MaxTotal + 1) :
       InitCycle(CounterObs(total), limit)

\* Server.Flush up to the end of its chunk loop
NextChunks ==
    \/ ServerCallFlush
    \/ FlushSwap("server")
    \/ FlushUnlock("server")
    \/ ServerCollect
    \/ ServerCombine
    \/ ServerChunk

SpecChunks == InitChunks /\ [][NextChunks]_vars

(* ------------------------------------------------------------------------ *)
(* Properties                                                               *)
(* ------------------------------------------------------------------------ *)
\* the elements of a sequence
Range(sq) == {sq[j] : j \in DOMAIN sq}

\* the rank of swap k among the swaps of its worker
Ord(k) == Cardinality({j \in 1..k : flushLog[j].worker = flushLog[k].worker})

\* the observations reflected in the result of the flush of swap k: the
\* samples of the aggregators whose Flush it appended to its result
Reflected(k) == UNION {Range(a.samples) : a \in Range(flushLog[k].flushed)}

\* the observations whose ProcessMetric completed on the worker of swap k
\* after the previous swap of that worker and before swap k
Between(k) ==
    {id \in DOMAIN obs : /\ obs[id].worker = flushLog[k].worker
                          /\ obs[id].epoch = Ord(k) - 1}

\* the aggregators of five mappings
Aggregators(ms) == UNION {Range(ms[f]) : f \in Fields}

\* the samples held by a set of aggregators, as <<place, instance, position,
\* observation>>
Slots(place, aggs) ==
    UNION {{<<place, a.inst, j, a.samples[j]>> : j \in DOMAIN a.samples} : a \in aggs}

\* every sample held: in the current mappings of a worker, in the mappings
\* a running Flush took, or in the aggregators a returned Flush flushed
AllSlots ==
    UNION ({Slots(<<"maps", w>>, Aggregators(maps[w])) : w \in WorkerIds}
           \cup {Slots(<<"taken", c>>, Aggregators(taken[c])) : c \in Callers}
           \cup {Slots(<<"flushed", k>>, Range(flushLog[k].flushed)) : k \in DOMAIN flushLog})

\* how many times observation id is held as a sample
Occurrences(id) == Cardinality({sl \in AllSlots : sl[4] = id})

\* C1: every observation of a known kind whose ProcessMetric completed is
\* held exactly once (never dropped, never in two places), and a returned
\* Worker.Flush reflects exactly the observations of known kinds completed
\* on its worker between the previous swap and its own swap, so that no
\* observation is reflected in two flushes
C1_ExactlyOneFlush ==
    /\ \A id \in DOMAIN obs :
          (obs[id].type \in Kinds /\ obs[id].epoch >= 0) => Occurrences(id) = 1
    /\ \A k \in DOMAIN flushLog :
          flushLog[k].returned =>
             Reflected(k) = {id \in Between(k) : obs[id].type \in Kinds}
    /\ \A k1, k2 \in DOMAIN flushLog :
          (k1 # k2 /\ flushLog[k1].returned /\ flushLog[k2].returned)
             => Reflected(k1) \cap Reflected(k2) = {}

\* C1 witness: two flushes of one worker have returned, each reflecting an
\* observation, the second one an observation processed after the first swap
C1_Witness ==
    \E k1, k2 \in DOMAIN flushLog :
       /\ k1 < k2
       /\ flushLog[k1].worker = flushLog[k2].worker
       /\ flushLog[k1].returned /\ flushLog[k2].returned
       /\ Reflected(k1) # {}
       /\ Reflected(k2) # {}

\* C2: a returned Worker.Flush holds a record for every digest of every
\* mapping it took, and when no ProcessMetric completed on the worker
\* between its swap and the next swap, the next Worker.Flush returns nothing
C2_SecondFlushEmpty ==
    \A k \in DOMAIN flushLog :
       flushLog[k].returned =>
          /\ \A f \in Fields : \A d \in DOMAIN flushLog[k].taken[f] :
                \E r \in Range(flushLog[k].out) : r.kind = KindOf(f) /\ r.digest = d
          /\ \A k2 \in DOMAIN flushLog :
                ( /\ flushLog[k2].worker = flushLog[k].worker
                  /\ Ord(k2) = Ord(k) + 1
                  /\ flushLog[k2].returned
                  /\ Between(k2) = {} )
                => flushLog[k2].out = <<>>

\* C2 witness: a flush returned records of a timer and a counter, and the
\* next flush of the worker, with no ProcessMetric in between, returned
\* nothing
C2_Witness ==
    \E k, k2 \in DOMAIN flushLog :
       /\ flushLog[k2].worker = flushLog[k].worker
       /\ Ord(k2) = Ord(k) + 1
       /\ flushLog[k].returned /\ flushLog[k2].returned
       /\ Between(k2) = {}
       /\ \E r \in Range(flushLog[k].out) : r.kind = "timer"
       /\ \E r \in Range(flushLog[k].out) : r.kind = "counter"
       /\ flushLog[k2].out = <<>>

\* the quotient of a by b rounded up, a >= 1 and b >= 1
Ceil(a, b) == CHOOSE q \in 1..a : q * b >= a /\ (q - 1) * b < a

\* the chunks handed to the flushParts started so far, in order
Chunks == [i \in 1..Len(parts) |-> parts[i].metricSlice]

\* the sizes of the chunks
ChunkSizes == [i \in 1..Len(parts) |-> Len(parts[i].metricSlice)]

\* C3: no slice expression of the chunk loop panics; once the partition is
\* computed, workers is totalCount / metricLimit rounded up, every chunk
\* started has at most totalCount / workers rounded up records, hence at
\* most metricLimit, the chunks started are consecutive slices from the start
\* of finalMetrics, and when the loop is over they are exactly finalMetrics
C3_Chunking ==
    /\ spc # "panic"
    /\ spc \in {"chunks", "done"} =>
          /\ totalCount >= 1
          /\ Len(finalMetrics) = totalCount
          /\ workers = Ceil(totalCount, metricLimit)
          /\ Len(parts) = ci
          /\ ci <= workers
          /\ \A i \in 1..Len(parts) :
                /\ ChunkSizes[i] <= Ceil(totalCount, workers)
                /\ ChunkSizes[i] <= metricLimit
          /\ \E all \in {Concat(Chunks)} :
                /\ Len(all) <= totalCount
                /\ all = SubSeq(finalMetrics, 1, Len(all))
                /\ ci = workers => all = finalMetrics

\* C3 witness: a cycle is complete whose records do not divide evenly: its
\* last chunk is smaller than the others
C3_Witness ==
    /\ spc = "done"
    /\ workers >= 2
    /\ ChunkSizes[workers] < chunkSize
    /\ ChunkSizes[1] = chunkSize

\* the cycle of 250 records under a metricLimit of 100 is complete
LargeDone == spc = "done" /\ totalCount = LargeCycle.total /\ metricLimit = LargeCycle.limit

\* C4 as stated: 250 records under a limit of 100 go out as chunks of 84,
\* 83 and 83 records
C4_Original == LargeDone => ChunkSizes = <<84, 83, 83>>

\* C4 amended: 250 records under a limit of 100 go out as 3 chunks of 84,
\* 84 and 82 records, which together are the 250 records, each once
C4_Sizes ==
    LargeDone => /\ workers = 3
                 /\ ChunkSizes = <<84, 84, 82>>
                 /\ Concat(Chunks) = finalMetrics
                 /\ Len(finalMetrics) = 250

\* C4 witness: the cycle of 250 records is complete
C4_Witness == LargeDone /\ Len(parts) = 3

\* C5: every iteration of the chunk loop starts a flushPart, the WaitGroup
\* counts the flushParts that have not finished, a flushPart has called
\* wg.Done once when it is finished and never before, and Server.Flush is
\* past wg.Wait only when all the workers flushParts are finished
C5_AllPartsJoined ==
    /\ Len(parts) = ci
    /\ wg = Cardinality({i \in DOMAIN parts : parts[i].pc # "done"})
    /\ \A i \in DOMAIN parts : parts[i].dones = IF parts[i].pc = "done" THEN 1 ELSE 0
    /\ spc = "done" =>
          /\ Len(parts) = workers
          /\ \A i \in 1..workers : parts[i].pc = "done" /\ parts[i].dones = 1

\* C5 witness: a cycle of three chunks is complete where the first chunk
\* failed at the encoding, the second at the request and the third went out
C5_Witness ==
    /\ spc = "done"
    /\ Len(parts) = 3
    /\ parts[1].errors # <<>> /\ parts[1].errors[1].cause = "json"
    /\ parts[2].errors # <<>> /\ parts[2].errors[1].cause = "construct"
    /\ parts[3].errors = <<>> /\ parts[3].status = StatusAccepted

\* the error counter and the outcome of every flushPart agree
OutcomeCounted ==
    /\ \A j \in DOMAIN stats.error_total : stats.error_total[j] = 0
    /\ Len(parts) <= workers
    /\ \A i \in DOMAIN parts :
          LET p == parts[i] IN
          /\ Len(p.errors) <= 1
          /\ p.pc # "done" => p.errors = <<>>
          /\ p.pc = "done" =>
                IF p.status = StatusAccepted
                THEN p.errors = <<>>
                ELSE /\ Len(p.errors) = 1
                     /\ p.errors[1].value = Len(p.metricSlice)
                     /\ IF p.status = 0
                        THEN p.errors[1].cause \in {"json", "construct", "io"}
                        ELSE p.errors[1].cause = ToString(p.status)

\* a finished flushPart is never run again, and a step that changes one
\* flushPart leaves the others as they are
OutcomeFinal ==
    \A i \in DOMAIN parts :
       /\ parts[i].pc = "done" => parts'[i] = parts[i]
       /\ \A j \in DOMAIN parts :
             (i # j /\ parts'[i] # parts[i]) => parts'[j] = parts[j]

\* C6: a finished flushPart has counted its chunk's records in
\* flush.error_total once, under one cause, exactly when it did not get a
\* 202: cause json, construct or io without a response, else the status
\* code; an unfinished one has counted nothing; Server.Flush itself only
\* counts 0; a finished flushPart is never run again and the step of one
\* flushPart changes no other
C6_ErrorAccounting == []OutcomeCounted /\ [][OutcomeFinal]_vars

\* C6 witness: a cycle of three chunks is complete where the second chunk
\* got a 500 and counted its 84 records under cause 500 and the other two
\* got a 202 and counted nothing
C6_Witness ==
    /\ spc = "done"
    /\ Len(parts) = 3
    /\ parts[2].status = 500
    /\ parts[2].errors = <<[value |-> 84, cause |-> "500"]>>
    /\ parts[1].status = StatusAccepted /\ parts[1].errors = <<>>
    /\ parts[3].status = StatusAccepted /\ parts[3].errors = <<>>

\* every worker has been flushed and none returned a record
AllFlushedEmpty ==
    /\ si > NumWorkers
    /\ \A k \in DOMAIN flushLog : flushLog[k].out = <<>>

\* C10: when every worker's Flush returned no record, totalCount is 0 and
\* Server.Flush returns at the test: no flushPart is started, no request is
\* sent and nothing is counted in flush.error_total
C10_EmptyCycle ==
    AllFlushedEmpty =>
       /\ totalCount = 0
       /\ spc \in {"loop", "skipped"}
       /\ parts = <<>>
       /\ wg = 0
       /\ stats.error_total = <<>>

\* C10 witness: Server.Flush has returned at the test after flushing every
\* worker
C10_Witness ==
    /\ spc = "skipped"
    /\ Len(flushLog) = NumWorkers
    /\ stats.post_metrics_total = <<0>>

\* the Work goroutine of w is inside ProcessMetric on an observation of a
\* type the switch does not know, and takes a step
UnknownStep(w) ==
    /\ cur[w] # 0
    /\ obs[cur[w]].type \notin Kinds
    /\ wpc'[w] # wpc[w]

\* C7 as stated: no step of ProcessMetric on an observation of an unknown
\* type changes the five mappings or the count of observations processed
C7_Original ==
    [][\A w \in WorkerIds :
          UnknownStep(w) => maps'[w] = maps[w] /\ metrics'[w] = metrics[w]]_vars

\* C7 amended: no step of ProcessMetric on an observation of an unknown
\* type changes the five mappings; the count of observations processed is
\* incremented by one, at the entry of the call, and by nothing else; the
\* call ends with the mutex released and the loop back at its select
C7_UnknownCounted ==
    [][\A w \in WorkerIds :
          UnknownStep(w) =>
             /\ maps'[w] = maps[w]
             /\ metrics'[w] = metrics[w] + (IF wpc[w] = "lock" THEN 1 ELSE 0)
             /\ wpc[w] = "unlock" =>
                   wpc'[w] = "select" /\ mutex'[w] = "free" /\ cur'[w] = 0]_vars

\* C7 witness: a worker processed an observation of an unknown type and
\* then one of a known kind: both are counted, the second one is the only
\* sample held
C7_Witness ==
    \E w \in WorkerIds :
       /\ Len(obs) = 2
       /\ obs[1].worker = w /\ obs[1].type \notin Kinds /\ obs[1].epoch = 0
       /\ obs[2].worker = w /\ obs[2].type \in Kinds /\ obs[2].epoch = 0
       /\ metrics[w] = 2
       /\ {a.samples : a \in Aggregators(maps[w])} = {<<2>>}

\* C8 as stated: the mutex is held only by a Worker.Flush around its swap,
\* never while an aggregator's Sample runs
C8_Original ==
    \A w \in WorkerIds :
       /\ mutex[w] # "free" => mutex[w] \in Callers
       /\ wpc[w] = "sample" => mutex[w] # "work"

\* C8 amended: the mutex is held by the Work goroutine exactly while it is
\* inside ProcessMetric past its Lock, the Sample call included, and by a
\* caller of Worker.Flush exactly between the Lock and the Unlock around its
\* swap: never while the aggregators taken are flushed, and by nobody else
C8_MutexScope ==
    \A w \in WorkerIds :
       /\ mutex[w] \in {"free", "work"} \cup Callers
       /\ mutex[w] = "work" <=> wpc[w] \in {"switch", "sample", "unlock"}
       /\ \A c \in Callers : mutex[w] = c <=> (fpc[c] = "unlock" /\ fw[c] = w)

\* C8 witness: an aggregator's Sample is about to run with the mutex held
\* by the Work goroutine while a Worker.Flush waits for it
C8_Witness ==
    \E w \in WorkerIds, c \in Callers :
       /\ wpc[w] = "sample"
       /\ mutex[w] = "work"
       /\ fpc[c] = "lock" /\ fw[c] = w

\* the positions of Worker.Flush and the mutex agree with the swap
SwapThenFlush ==
    \A c \in Callers :
       /\ fpc[c] = "lock" => taken[c] = EmptyMaps
       /\ fpc[c] = "unlock" =>
             /\ mutex[fw[c]] = c
             /\ maps[fw[c]] = EmptyMaps
             /\ metrics[fw[c]] = 0
             /\ taken[c] = flushLog[fno[c]].taken
             /\ flushLog[fno[c]].flushed = <<>>
       /\ fpc[c] = "flushing" =>
             /\ mutex[fw[c]] # c
             /\ taken[c] = flushLog[fno[c]].taken
             /\ flushLog[fno[c]].flushed = <<>>

\* the swap takes the current mappings under the mutex, and an aggregator's
\* Flush is called only by a caller past its Unlock
FlushOutsideMutex ==
    /\ \A c \in Callers :
          (fpc[c] = "lock" /\ fpc'[c] = "unlock") =>
             /\ mutex[fw[c]] = "free"
             /\ mutex'[fw[c]] = c
             /\ taken'[c] = maps[fw[c]]
             /\ maps'[fw[c]] = EmptyMaps
             /\ metrics'[fw[c]] = 0
    /\ \A k \in DOMAIN flushLog :
          flushLog'[k].flushed # flushLog[k].flushed =>
             /\ fpc[flushLog[k].caller] = "flushing"
             /\ fno[flushLog[k].caller] = k
             /\ mutex[flushLog[k].worker] # flushLog[k].caller
             /\ mutex'[flushLog[k].worker] # flushLog[k].caller
             /\ Range(flushLog'[k].flushed) = Aggregators(flushLog[k].taken)

\* C9: Worker.Flush takes the five mappings and leaves five empty ones and
\* a counter of 0 while it holds the mutex, and calls Flush on the
\* aggregators it took, and on those only, after it released the mutex
C9_SwapThenFlush == []SwapThenFlush /\ [][FlushOutsideMutex]_vars

\* C9 witness: a Worker.Flush is about to flush the aggregators it took
\* while ProcessMetric, holding the mutex, has put a sample into the new
\* mappings
C9_Witness ==
    \E c \in Callers :
       /\ fpc[c] = "flushing"
       /\ Aggregators(taken[c]) # {}
       /\ mutex[fw[c]] = "work"
       /\ wpc[fw[c]] = "unlock"
       /\ \E a \in Aggregators(maps[fw[c]]) : a.samples # <<>>

\* the Work loop returns from its select only
ReturnsAtSelect ==
    \A w \in WorkerIds :
       (wpc[w] # "stopped" /\ wpc'[w] = "stopped") =>
          /\ wpc[w] = "select"
          /\ quit[w]
          /\ cur[w] = 0
          /\ mutex[w] # "work"
          /\ maps'[w] = maps[w] /\ metrics'[w] = metrics[w]

\* a stopped loop holds no mutex and left no observation half-applied:
\* every observation it received went through the whole of ProcessMetric
StoppedClean ==
    \A w \in WorkerIds :
       wpc[w] = "stopped" =>
          /\ mutex[w] # "work"
          /\ cur[w] = 0
          /\ \A id \in DOMAIN obs :
                obs[id].worker = w =>
                   /\ obs[id].epoch >= 0
                   /\ obs[id].type \in Kinds => Occurrences(id) = 1

\* C11: once Stop closed QuitChan the Work loop returns in the end, and it
\* returns only from its select, between two calls of ProcessMetric: with
\* the mutex not held by it and every observation received fully applied
C11_StopReturns ==
    /\ \A w \in SpecWorkers : quit[w] ~> (wpc[w] = "stopped")
    /\ [][ReturnsAtSelect]_vars
    /\ []StoppedClean

\* C11 witness: the loop returned after Stop, having processed an
\* observation that a flush has taken or will take
C11_Witness ==
    \E w \in WorkerIds :
       /\ wpc[w] = "stopped"
       /\ quit[w]
       /\ \E id \in DOMAIN obs :
             obs[id].worker = w /\ obs[id].type \in Kinds /\ Occurrences(id) = 1

\* the swap of caller c has been done and its Worker.Flush has returned
Returned(c) ==
    \E k \in DOMAIN flushLog : flushLog[k].caller = c /\ flushLog[k].returned

\* a returned flush left out no observation of a known kind that was
\* processed on its worker before its swap and after the previous one
NothingLeftBehind ==
    \A k \in DOMAIN flushLog :
       flushLog[k].returned =>
          \A id \in Between(k) : obs[id].type \in Kinds => id \in Reflected(k)

\* C12: every Worker.Flush that was called takes the mutex, swaps and
\* returns in the end, wherever the Work loop is (at its select, inside
\* ProcessMetric, stopped), and what it returns holds the observations
\* processed before its swap
C12_FlushReturns ==
    /\ \A c \in DirectCallers : (fpc[c] = "lock") ~> Returned(c)
    /\ []NothingLeftBehind

\* C12 witness: a Worker.Flush was called on a worker whose loop has
\* stopped and whose mappings hold an observation, after another
\* Worker.Flush returned
C12_Witness ==
    \E c, c2 \in DirectCallers :
       /\ fpc[c] = "lock"
       /\ wpc[fw[c]] = "stopped"
       /\ Aggregators(maps[fw[c]]) # {}
       /\ Returned(c2)

\* the observations worker w has processed: those whose ProcessMetric
\* returned and the one whose ProcessMetric is past its entry
Processed(w) ==
    {id \in DOMAIN obs :
        /\ obs[id].worker = w
        /\ obs[id].epoch >= 0 \/ (cur[w] = id /\ wpc[w] # "lock")}

RECURSIVE Reported(_, _)
\* the sum of the counts that the first k swaps reported for worker w
Reported(w, k) ==
    IF k = 0 THEN 0
    ELSE Reported(w, k - 1) + (IF flushLog[k].worker = w THEN flushLog[k].processed ELSE 0)

\* C13: the count a Worker.Flush reports is the number of observations
\* processed on the worker between the previous swap and its own, the
\* counter is 0 right after a swap, and the counts reported so far plus
\* the counter are the number of observations processed
C13_ProcessedCount ==
    /\ \A k \in DOMAIN flushLog : flushLog[k].processed = Cardinality(Between(k))
    /\ \A c \in Callers : fpc[c] = "unlock" => metrics[fw[c]] = 0
    /\ \A w \in WorkerIds :
          Reported(w, Len(flushLog)) + metrics[w] = Cardinality(Processed(w))

\* C13 witness: two flushes of a worker each reported one observation
C13_Witness ==
    \E k1, k2 \in DOMAIN flushLog :
       /\ k1 < k2
       /\ flushLog[k1].worker = flushLog[k2].worker
       /\ flushLog[k1].processed = 1
       /\ flushLog[k2].processed = 1
       /\ metrics[flushLog[k1].worker] = 0

\* the number of swaps of its worker that preceded the ProcessMetric of
\* observation id
Epoch(id) ==
    IF obs[id].epoch >= 0 THEN obs[id].epoch ELSE SwapCount(obs[id].worker)

\* the Sample call of observation id has been made
Sampled(id) ==
    /\ obs[id].type \in Kinds
    /\ \/ obs[id].epoch >= 0
       \/ cur[obs[id].worker] = id /\ wpc[obs[id].worker] = "unlock"

\* every aggregator instance that exists: in the current mappings of a
\* worker or in the mappings a swap took
Instances ==
    UNION ({Aggregators(maps[w]) : w \in WorkerIds}
           \cup {Aggregators(flushLog[k].taken) : k \in DOMAIN flushLog})

\* C14: in the current mappings of a worker the instance stored for a kind
\* under a digest is of that kind and digest, and the only one; two
\* observations of one kind and digest sampled on a worker between the
\* same two swaps are held by one instance; and an instance holds
\* observations of its kind and digest processed between two consecutive
\* swaps only, nothing from before the swap that preceded its creation
C14_OneInstance ==
    /\ \A w \in WorkerIds : \A f \in Fields : \A d \in DOMAIN maps[w][f] :
          /\ maps[w][f][d].kind = KindOf(f)
          /\ maps[w][f][d].digest = d
          /\ \A f2 \in Fields : \A d2 \in DOMAIN maps[w][f2] :
                maps[w][f2][d2].inst = maps[w][f][d].inst => (f2 = f /\ d2 = d)
    /\ \A i, j \in DOMAIN obs :
          ( /\ Sampled(i) /\ Sampled(j)
            /\ obs[i].worker = obs[j].worker
            /\ obs[i].type = obs[j].type
            /\ obs[i].digest = obs[j].digest
            /\ Epoch(i) = Epoch(j) )
          => \E a \in Instances : {i, j} \subseteq Range(a.samples)
    /\ \A a \in Instances : \A i, j \in Range(a.samples) :
          /\ obs[i].type = a.kind
          /\ obs[i].digest = a.digest
          /\ Epoch(i) = Epoch(j)

\* C14 witness: after a swap took the instance of a kind and digest, an
\* observation of the same kind and digest is held by another instance,
\* which holds nothing else
C14_Witness ==
    \E k \in DOMAIN flushLog :
       \E a \in Aggregators(flushLog[k].taken) :
          \E b \in Aggregators(maps[flushLog[k].worker]) :
             /\ a.kind = b.kind
             /\ a.digest = b.digest
             /\ a.inst # b.inst
             /\ Len(a.samples) = 1
             /\ Len(b.samples) = 1
             /\ a.samples # b.samples

\* the instances among a set of aggregators
InstOf(aggs) == {a.inst : a \in aggs}

\* C15: no instance has its Flush called twice, by one Worker.Flush or by
\* two; no two swaps take the same instance; and an instance a swap took
\* is in no current mapping, where a Sample could reach it: it is flushed
\* with the samples it held when it was taken
C15_FlushedOnce ==
    /\ \A k1, k2 \in DOMAIN flushLog :
          \A j1 \in DOMAIN flushLog[k1].flushed, j2 \in DOMAIN flushLog[k2].flushed :
             flushLog[k1].flushed[j1].inst = flushLog[k2].flushed[j2].inst
                => (k1 = k2 /\ j1 = j2)
    /\ \A k1, k2 \in DOMAIN flushLog :
          k1 # k2 =>
             InstOf(Aggregators(flushLog[k1].taken))
                \cap InstOf(Aggregators(flushLog[k2].taken)) = {}
    /\ \A k \in DOMAIN flushLog :
          /\ \A w \in WorkerIds :
                InstOf(Aggregators(flushLog[k].taken)) \cap InstOf(Aggregators(maps[w])) = {}
          /\ Range(flushLog[k].flushed) \subseteq Aggregators(flushLog[k].taken)

\* C15 witness: two concurrent Worker.Flush calls on one worker are both
\* about to flush the instances they took
C15_Witness ==
    \E c1, c2 \in Callers :
       /\ c1 # c2
       /\ fw[c1] = fw[c2]
       /\ fpc[c1] = "flushing" /\ Aggregators(taken[c1]) # {}
       /\ fpc[c2] = "flushing" /\ Aggregators(taken[c2]) # {}

\* caller c reads the sizes of the mappings of worker w in this step
ReadsSizes(c, w) == fpc[c] = "idle" /\ fpc'[c] = "lock" /\ fw'[c] = w

\* caller c reads and replaces the mappings and the counter of worker w in
\* this step
Swaps(c, w) == fpc[c] = "lock" /\ fpc'[c] = "unlock" /\ fw[c] = w

\* the Work goroutine of w reads or writes its mappings or its counter in
\* this step
Ingests(w) == wpc[w] \in {"lock", "switch", "sample"} /\ wpc'[w] # wpc[w]

\* every access to the mappings and the counter of a worker is made by the
\* holder of its mutex, and Worker.Flush makes none while ProcessMetric
\* holds the mutex
AccessUnderMutex ==
    \A w \in WorkerIds :
       /\ Ingests(w) => mutex'[w] = "work"
       /\ \A c \in Callers :
             /\ Swaps(c, w) => mutex'[w] = c
             /\ ReadsSizes(c, w) => mutex[w] # "work"

\* C16: ProcessMetric and Worker.Flush access the current mappings of a
\* worker (their sizes included) and its counter under the mutex only, so
\* that Worker.Flush never reads a mapping while a ProcessMetric call is
\* inside its critical section, modifying it
C16_AccessUnderMutex == [][AccessUnderMutex]_vars

\* C17: while the mutex of a worker is free every aggregator in its
\* current mappings has been sampled, and so has every aggregator a
\* Worker.Flush took or flushed
C17_NoEmptyAggregator ==
    /\ \A w \in WorkerIds :
          mutex[w] = "free" => \A a \in Aggregators(maps[w]) : a.samples # <<>>
    /\ \A k \in DOMAIN flushLog :
          \A a \in Aggregators(flushLog[k].taken) \cup Range(flushLog[k].flushed) :
             a.samples # <<>>

\* C17 witness: a Worker.Flush flushed an aggregator it took, and the
\* worker, its mutex free, holds an aggregator created since
C17_Witness ==
    \E k \in DOMAIN flushLog :
       /\ flushLog[k].returned
       /\ flushLog[k].flushed # <<>>
       /\ mutex[flushLog[k].worker] = "free"
       /\ Aggregators(maps[flushLog[k].worker]) # {}

\* a flushPart that got a response counts an error exactly when the status
\* is not 202, whether the body was read or not
StatusDecides ==
    \A i \in DOMAIN parts :
       (parts[i].pc = "done" /\ parts[i].status # 0) =>
          /\ parts[i].errors = <<>> <=> parts[i].status = StatusAccepted
          /\ \A j \in DOMAIN parts :
                ( /\ parts[j].pc = "done"
                  /\ parts[j].status = parts[i].status
                  /\ Len(parts[j].metricSlice) = Len(parts[i].metricSlice) )
                => parts[j].errors = parts[i].errors

\* reading the body counts nothing and ends nothing: flushPart goes on to
\* the test of the status
ReadGoesOn ==
    \A i \in DOMAIN parts :
       parts[i].pc = "read" =>
          /\ parts'[i].pc \in {"read", "check"}
          /\ parts'[i].errors = parts[i].errors
          /\ parts'[i].dones = parts[i].dones
          /\ wg' = wg \/ parts'[i] = parts[i]

\* C18: a flushPart whose response is a 202 counts no error when reading
\* the body failed; the error count of a response depends on its status
\* only, and a failed read neither counts nor returns
C18_ReadErrorIgnored == []StatusDecides /\ [][ReadGoesOn]_vars

\* C18 witness: a flushPart got a 202, failed to read the body and ended
\* with no error counted
C18_Witness ==
    \E i \in DOMAIN parts :
       /\ parts[i].pc = "done"
       /\ parts[i].status = StatusAccepted
       /\ parts[i].readErr
       /\ parts[i].errors = <<>>
       /\ parts[i].dones = 1

\* the mapping that is to hold the aggregators of each kind
MappingOf ==
    [counter |-> "counters", gauge |-> "gauges", histogram |-> "histograms",
     set |-> "sets", timer |-> "timers"]

\* a step of ProcessMetric on an observation of a known kind changes, of
\* all the mappings, the entry of its digest in the mapping of its kind
\* only, and its Sample puts the observation there
OnlyItsEntry ==
    \A w \in WorkerIds :
       (cur[w] # 0 /\ obs[cur[w]].type \in Kinds /\ wpc'[w] # wpc[w]) =>
          /\ \A f \in Fields \ {MappingOf[obs[cur[w]].type]} : maps'[w][f] = maps[w][f]
          /\ \A w2 \in WorkerIds \ {w} : maps'[w2] = maps[w2]
          /\ DOMAIN maps'[w][MappingOf[obs[cur[w]].type]]
                \subseteq DOMAIN maps[w][MappingOf[obs[cur[w]].type]] \cup {obs[cur[w]].digest}
          /\ \A d \in DOMAIN maps[w][MappingOf[obs[cur[w]].type]] \ {obs[cur[w]].digest} :
                /\ d \in DOMAIN maps'[w][MappingOf[obs[cur[w]].type]]
                /\ maps'[w][MappingOf[obs[cur[w]].type]][d]
                      = maps[w][MappingOf[obs[cur[w]].type]][d]
          /\ wpc[w] = "sample" =>
                /\ obs[cur[w]].digest \in DOMAIN maps'[w][MappingOf[obs[cur[w]].type]]
                /\ cur[w] \in Range(maps'[w][MappingOf[obs[cur[w]].type]]
                                         [obs[cur[w]].digest].samples)

\* two observations of one digest and two kinds are held by two instances,
\* each of the kind of its observation, and a flush that reflects both
\* returns a record of each kind for the digest
KindsApart ==
    \A i, j \in DOMAIN obs :
       ( /\ Sampled(i) /\ Sampled(j)
         /\ obs[i].worker = obs[j].worker
         /\ obs[i].digest = obs[j].digest
         /\ obs[i].type # obs[j].type )
       => /\ \A a \in Instances :
                i \in Range(a.samples) => (a.kind = obs[i].type /\ j \notin Range(a.samples))
          /\ \A k \in DOMAIN flushLog :
                (flushLog[k].returned /\ {i, j} \subseteq Between(k)) =>
                   \E r1, r2 \in Range(flushLog[k].out) :
                      /\ r1.kind = obs[i].type /\ r1.digest = obs[i].digest
                      /\ i \in Range(r1.samples)
                      /\ r2.kind = obs[j].type /\ r2.digest = obs[j].digest
                      /\ j \in Range(r2.samples)

\* C19: ProcessMetric on an observation of kind K and digest d changes
\* only the entry of d in the mapping of K, so that observations of one
\* digest and two kinds are aggregated apart and both are in the next flush
C19_FrameOfProcessMetric == [][OnlyItsEntry]_vars /\ []KindsApart

\* C19 witness: a flush returned a record of a counter and a record of a
\* timer of one digest, each from its own observation
C19_Witness ==
    \E k \in DOMAIN flushLog :
       \E r1, r2 \in Range(flushLog[k].out) :
          /\ flushLog[k].returned
          /\ r1.kind = "counter" /\ r2.kind = "timer"
          /\ r1.digest = r2.digest
          /\ Len(r1.samples) = 1 /\ Len(r2.samples) = 1
          /\ r1.samples # r2.samples

\* C20: for totalCount >= 1 and metricLimit >= 1 no slice expression of
\* the chunk loop is out of range: every chunk starts below totalCount,
\* every chunk but the last ends at or below it, the last chunk takes a
\* remainder of at least 1 and at most chunkSize, and the chunks cut are
\* of these sizes
C20_SliceBounds ==
    /\ spc # "panic"
    /\ spc = "chunks" =>
          /\ totalCount >= 1 /\ metricLimit >= 1
          /\ workers >= 1 /\ chunkSize >= 1
          /\ \A i \in 0..(workers - 1) : i * chunkSize < totalCount
          /\ \A i \in 0..(workers - 2) : (i + 1) * chunkSize <= totalCount
          /\ totalCount - (workers - 1) * chunkSize \in 1..chunkSize
          /\ \A i \in DOMAIN parts :
                Len(parts[i].metricSlice) =
                   IF i < workers THEN chunkSize
                   ELSE totalCount - (workers - 1) * chunkSize

\* C20 witness: the chunk loop has cut four chunks or more, the last one
\* shorter than the others
C20_Witness ==
    /\ spc = "chunks"
    /\ workers >= 4
    /\ Len(parts) = workers
    /\ Len(parts[workers].metricSlice) < chunkSize
    /\ Len(parts[1].metricSlice) = chunkSize

====
